---------------------------- MODULE Spec2Model ----------------------------
(***************************************************************************)
(* A model of export_data.py: the export of BittyTax audit events with     *)
(* per-transaction disposal P/L, income amounts and counter-asset fields,  *)
(* and the ASCII table renderer.                                           *)
(*                                                                         *)
(* Representation.                                                         *)
(*   - A Python str is a sequence of characters; a character is a one-     *)
(*     character TLA+ string, or the name of its code point ("U+00E2").    *)
(*     The empty str is << >>.                                             *)
(*   - A Decimal is an integer number of thousandths (1500 is 1.5).        *)
(*   - An Optional value is a sequence: None is << >>, a value v is <<v>>. *)
(*   - Python lists are sequences; indices are 1-based here and 0-based    *)
(*     in the source.                                                      *)
(***************************************************************************)
EXTENDS Integers, Sequences, FiniteSets, TLC

None == << >>
Some(v) == << v >>
Val(o) == o[1]

\* ------------------------------------------------------------------------
\* Bounds of the model
\* ------------------------------------------------------------------------
\* columns of a rendered table
NCols == 2
\* rows of a rendered table: 0..MaxRows
MaxRows == 1
\* terminal widths: TermStep, 2*TermStep, ..., MaxTermK*TermStep
TermStep == 2
MaxTermK == 33
\* _truncate_cell alone: text lengths 0..MaxTextLen, widths 0..MaxCellWidth
MaxTextLen == 9
MaxCellWidth == 9
\* audit log entries over all assets: 0..MaxEntries
MaxEntries == 2
\* tax events over all years, for the aggregation alone: 0..MaxAggEvents
MaxAggEvents == 3
\* audit log entries over all assets, for the aggregation alone: 0..MinEntries
MinEntries == 1

\* ------------------------------------------------------------------------
\* Characters and strings
\* ------------------------------------------------------------------------
DigitChar(d) ==
    CASE d = 0 -> "0" [] d = 1 -> "1" [] d = 2 -> "2" [] d = 3 -> "3"
      [] d = 4 -> "4" [] d = 5 -> "5" [] d = 6 -> "6" [] d = 7 -> "7"
      [] d = 8 -> "8" [] d = 9 -> "9"

\* a text of n characters, the i-th one determined by i
Text(n) == [i \in 1..n |-> DigitChar(i % 10)]

\* text[:k] for k >= 0
Prefix(text, k) == SubSeq(text, 1, IF k < Len(text) THEN k ELSE Len(text))

Spaces(n) == [i \in 1..n |-> " "]

RECURSIVE SumSeq(_)
SumSeq(s) == IF s = << >> THEN 0 ELSE Head(s) + SumSeq(Tail(s))

RECURSIVE Join(_, _)
\* sep.join(parts)
Join(sep, parts) ==
    IF parts = << >> THEN << >>
    ELSE IF Len(parts) = 1 THEN parts[1]
    ELSE parts[1] \o sep \o Join(sep, Tail(parts))

MaxOf(S) == CHOOSE m \in S : \A x \in S : x <= m

\* ------------------------------------------------------------------------
\* fmt_qty, fmt_val, fmt_tx
\* ------------------------------------------------------------------------
RECURSIVE IntStr(_)
\* the decimal digits of n >= 0
IntStr(n) == IF n < 10 THEN << DigitChar(n) >> ELSE IntStr(n \div 10) \o << DigitChar(n % 10) >>

Abs(x) == IF x < 0 THEN -x ELSE x
SignStr(x) == IF x < 0 THEN << "-" >> ELSE << >>

\* the fraction digits of fr thousandths, trailing zeros stripped
FracStr(fr) ==
    IF fr = 0 THEN << >>
    ELSE IF fr % 100 = 0 THEN << DigitChar(fr \div 100) >>
    ELSE IF fr % 10 = 0 THEN << DigitChar(fr \div 100), DigitChar((fr \div 10) % 10) >>
    ELSE << DigitChar(fr \div 100), DigitChar((fr \div 10) % 10), DigitChar(fr % 10) >>

\* f"{x.normalize():f}"
fmt_qty(x) ==
    IF x = None THEN << >>
    ELSE SignStr(Val(x)) \o IntStr(Abs(Val(x)) \div 1000) \o
         (IF Abs(Val(x)) % 1000 = 0 THEN << >>
          ELSE << "." >> \o FracStr(Abs(Val(x)) % 1000))

\* thousandths to hundredths, ties to even
RoundHalfEven(a) ==
    LET h == a \div 10
        r == a % 10
    IN IF r > 5 \/ (r = 5 /\ h % 2 = 1) THEN h + 1 ELSE h

\* f"{x:.2f}"
fmt_val(x) ==
    IF x = None THEN << >>
    ELSE LET h == RoundHalfEven(Abs(Val(x)))
         IN SignStr(Val(x)) \o IntStr(h \div 100) \o << "." >> \o
            << DigitChar((h \div 10) % 10), DigitChar(h % 10) >>

fmt_tx(tr) ==
    IF tr.tx_raw = None THEN << >>
    ELSE LET txr == Val(tr.tx_raw)
         IN IF txr.tx_hash # << >> THEN txr.tx_hash
            ELSE LET parts == (IF txr.tx_src # << >> THEN << txr.tx_src >> ELSE << >>) \o
                              (IF txr.tx_dest # << >> THEN << txr.tx_dest >> ELSE << >>)
                 IN IF Len(parts) = 2 THEN parts[1] \o << "-", ">" >> \o parts[2]
                    ELSE IF parts # << >> THEN parts[1]
                    ELSE << >>

_should_output_csv(force_csv, force_table, isatty) ==
    IF force_csv THEN TRUE
    ELSE IF force_table THEN FALSE
    ELSE ~isatty

\* ------------------------------------------------------------------------
\* _truncate_cell
\* ------------------------------------------------------------------------
\* the marker literal of the source: three code points
EllipsisMarker == << "U+00E2", "U+20AC", "U+00A6" >>

_truncate_cell(text, max_width) ==
    IF Len(text) <= max_width THEN text
    ELSE IF max_width <= 1 THEN Prefix(text, max_width)
    ELSE Prefix(text, max_width - 1) \o EllipsisMarker

\* ------------------------------------------------------------------------
\* _print_ascii_table
\* ------------------------------------------------------------------------
soft_cap == 28
FloorCap == 12
FloorMin == 4
SepWidth == 3
EdgeWidth == 2

\* 0-based column positions that are right-aligned
numeric_indices == {5, 6, 7, 8, 9, 10, 11, 12, 13, 14, 16, 17, 18}

Min2(a, b) == IF a < b THEN a ELSE b
Max2(a, b) == IF a > b THEN a ELSE b

PrelimRows(rs) ==
    [r \in 1..Len(rs) |-> [c \in 1..Len(rs[r]) |-> _truncate_cell(rs[r][c], soft_cap)]]

ComputeWidths(hs, prs) ==
    [c \in 1..Len(hs) |->
        MaxOf({Len(hs[c])} \cup {Len(prs[r][c]) : r \in 1..Len(prs)})]

total_width(ws) == SumSeq(ws) + SepWidth * (Len(ws) - 1) + EdgeWidth

MinWidths(hs) == [c \in 1..Len(hs) |-> Max2(Min2(FloorCap, Len(hs[c])), FloorMin)]

Slack(ws, mins, i) == ws[i] - mins[i]

\* WidestIdx, were the last index with the greatest key taken
WidestIdx_Last(ws, mins) ==
    CHOOSE i \in 1..Len(ws) :
        /\ \A j \in 1..Len(ws) : Slack(ws, mins, j) <= Slack(ws, mins, i)
        /\ \A j \in (i + 1)..Len(ws) : Slack(ws, mins, j) < Slack(ws, mins, i)

\* max(range(n), key=...): the first index with the greatest key
WidestIdx(ws, mins) ==
    CHOOSE i \in 1..Len(ws) :
        /\ \A j \in 1..Len(ws) : Slack(ws, mins, j) <= Slack(ws, mins, i)
        /\ \A j \in 1..(i - 1) : Slack(ws, mins, j) < Slack(ws, mins, i)

FinalRows(prs, ws) ==
    [r \in 1..Len(prs) |-> [c \in 1..Len(prs[r]) |-> _truncate_cell(prs[r][c], ws[c])]]

ljust(text, width) == IF Len(text) >= width THEN text ELSE text \o Spaces(width - Len(text))
rjust(text, width) == IF Len(text) >= width THEN text ELSE Spaces(width - Len(text)) \o text

fmt_cell(text, width, right_align) ==
    IF right_align THEN rjust(text, width) ELSE ljust(text, width)

Dashes(n) == [i \in 1..n |-> "-"]

HeaderLine(hs, ws) ==
    << " " >> \o Join(<< " ", "|", " " >>, [i \in 1..Len(hs) |-> fmt_cell(hs[i], ws[i], FALSE)])

SepLine(hs, ws) ==
    << " " >> \o Join(<< "-", "+", "-" >>, [i \in 1..Len(hs) |-> Dashes(ws[i])])

RowLine(hs, ws, row) ==
    << " " >> \o Join(<< " ", "|", " " >>,
        [i \in 1..Len(hs) |-> fmt_cell(row[i], ws[i], (i - 1) \in numeric_indices)])

VARIABLES
    headers,      \* table renderer: the headers
    rows,         \* table renderer: the rows handed in
    term_cols,    \* table renderer: the terminal width
    prelim_rows,  \* table renderer: the rows, truncated
    widths,       \* table renderer: the column widths
    over_by,      \* table renderer: the excess still to shave off
    min_widths,   \* table renderer: the floor widths
    lines,        \* table renderer: the printed lines
    tpc,          \* table renderer: position in _print_ascii_table
    tc_text,      \* _truncate_cell alone: its text
    tc_width,     \* _truncate_cell alone: its max_width
    tc_result,    \* _truncate_cell alone: its result
    tc_pc,        \* _truncate_cell alone: called or returned
    t_records,    \* main: the transaction records, referred to by position
    audit_log,    \* main: audit.audit_log, asset -> entries, in insertion order
    tax_events,   \* main: tax.tax_events, year -> events
    tr_to_pl,     \* main: transaction key -> summed proceeds, cost, fees, gain
    tr_to_entries, \* main: transaction key -> part name -> audit entry
    data_rows,    \* main: the rows built so far
    out_mode,     \* main: how the rows were written out
    yi,           \* main: position in sorted(tax.tax_events)
    ti,           \* main: position in tax.tax_events[year]
    ai,           \* main: position among the assets of the loop at hand
    ei,           \* main: position among the entries of that asset
    pc            \* main: position in main()

tvars == << headers, rows, term_cols, prelim_rows, widths, over_by, min_widths, lines, tpc >>
cvars == << tc_text, tc_width, tc_result, tc_pc >>
mvars == << t_records, audit_log, tax_events, tr_to_pl, tr_to_entries, data_rows,
           out_mode, yi, ti, ai, ei, pc >>
vars == << tvars, cvars, mvars >>

\* ------------------------------------------------------------------------
\* The table renderer as a state machine
\* ------------------------------------------------------------------------
HeaderLens == {2, 5, 14}
CellLens == {3, 33}
TermWidths == {TermStep * k : k \in 1..MaxTermK}

TableIdle ==
    /\ headers = << >> /\ rows = << >> /\ term_cols = 0 /\ prelim_rows = << >>
    /\ widths = << >> /\ over_by = 0 /\ min_widths = << >> /\ lines = << >>
    /\ tpc = "idle"

TruncIdle ==
    /\ tc_text = << >> /\ tc_width = 0 /\ tc_result = << >> /\ tc_pc = "idle"

MainIdle ==
    /\ t_records = << >> /\ audit_log = << >> /\ tax_events = << >>
    /\ tr_to_pl = << >> /\ tr_to_entries = << >> /\ data_rows = << >>
    /\ out_mode = "none" /\ yi = 0 /\ ti = 0 /\ ai = 0 /\ ei = 0 /\ pc = "idle"

InitTable ==
    /\ headers \in [1..NCols -> {Text(n) : n \in HeaderLens}]
    /\ \E nr \in 0..MaxRows : rows \in [1..nr -> [1..NCols -> {Text(n) : n \in CellLens}]]
    /\ term_cols \in TermWidths
    /\ prelim_rows = << >>
    /\ widths = << >>
    /\ over_by = 0
    /\ min_widths = << >>
    /\ lines = << >>
    /\ tpc = "start"
    /\ TruncIdle
    /\ MainIdle

\* lines 111-132: preliminary truncation, widths, the test of the total width
T_Prepare ==
    /\ tpc = "start"
    /\ LET prs == PrelimRows(rows)
           ws == ComputeWidths(headers, prs)
       IN /\ prelim_rows' = prs
          /\ widths' = ws
          /\ IF total_width(ws) > term_cols
             THEN /\ over_by' = total_width(ws) - term_cols
                  /\ min_widths' = MinWidths(headers)
                  /\ tpc' = "shrink"
             ELSE /\ UNCHANGED << over_by, min_widths >>
                  /\ tpc' = "render"
    /\ UNCHANGED << headers, rows, term_cols, lines >>
    /\ UNCHANGED << cvars, mvars >>

\* lines 134-139: one iteration of the while loop that does not break
T_ShrinkStep ==
    /\ tpc = "shrink"
    /\ over_by > 0
    /\ LET widest_idx == WidestIdx(widths, min_widths)
       IN /\ ~(widths[widest_idx] <= min_widths[widest_idx])
          /\ widths' = [widths EXCEPT ![widest_idx] = @ - 1]
          /\ over_by' = over_by - 1
    /\ UNCHANGED << headers, rows, term_cols, prelim_rows, min_widths, lines, tpc >>
    /\ UNCHANGED << cvars, mvars >>

\* lines 134-144: the loop ends (condition false, or break), final truncation
T_ShrinkExit ==
    /\ tpc = "shrink"
    /\ \/ ~(over_by > 0)
       \/ widths[WidestIdx(widths, min_widths)] <= min_widths[WidestIdx(widths, min_widths)]
    /\ prelim_rows' = FinalRows(prelim_rows, widths)
    /\ tpc' = "render"
    /\ UNCHANGED << headers, rows, term_cols, widths, over_by, min_widths, lines >>
    /\ UNCHANGED << cvars, mvars >>

\* lines 152-163: header line, separator line, one line per row
T_Render ==
    /\ tpc = "render"
    /\ lines' = << HeaderLine(headers, widths), SepLine(headers, widths) >>
                   \o [r \in 1..Len(prelim_rows) |-> RowLine(headers, widths, prelim_rows[r])]
    /\ tpc' = "done"
    /\ UNCHANGED << headers, rows, term_cols, prelim_rows, widths, over_by, min_widths >>
    /\ UNCHANGED << cvars, mvars >>

NextTable == T_Prepare \/ T_ShrinkStep \/ T_ShrinkExit \/ T_Render

\* the function runs to completion: no step of it is postponed forever
SpecTable == InitTable /\ [][NextTable]_vars /\ WF_vars(NextTable)

\* ------------------------------------------------------------------------
\* _truncate_cell alone
\* ------------------------------------------------------------------------
InitTrunc ==
    /\ tc_text \in {Text(n) : n \in 0..MaxTextLen}
    /\ tc_width \in 0..MaxCellWidth
    /\ tc_result = << >>
    /\ tc_pc = "call"
    /\ TableIdle
    /\ MainIdle

TC_Apply ==
    /\ tc_pc = "call"
    /\ tc_result' = _truncate_cell(tc_text, tc_width)
    /\ tc_pc' = "returned"
    /\ UNCHANGED << tc_text, tc_width >>
    /\ UNCHANGED << tvars, mvars >>

NextTrunc == TC_Apply

SpecTrunc == InitTrunc /\ [][NextTrunc]_vars


\* ------------------------------------------------------------------------
\* main(): its inputs
\* ------------------------------------------------------------------------
BTC == << "B", "T", "C" >>
ETH == << "E", "T", "H" >>

\* the code point of a character of an asset symbol
Ord(c) ==
    CASE c = "B" -> 66 [] c = "C" -> 67 [] c = "E" -> 69 [] c = "H" -> 72 [] c = "T" -> 84

RECURSIVE StrLess(_, _)
\* a < b on Python strs
StrLess(a, b) ==
    IF b = << >> THEN FALSE
    ELSE IF a = << >> THEN TRUE
    ELSE IF Ord(a[1]) # Ord(b[1]) THEN Ord(a[1]) < Ord(b[1])
    ELSE StrLess(Tail(a), Tail(b))

RECURSIVE SortedInts(_)
SortedInts(S) ==
    IF S = {} THEN << >>
    ELSE LET m == CHOOSE x \in S : \A y \in S : x <= y
         IN << m >> \o SortedInts(S \ {m})

RECURSIVE SortedStrs(_)
SortedStrs(S) ==
    IF S = {} THEN << >>
    ELSE LET m == CHOOSE x \in S : \A y \in S \ {x} : StrLess(x, y)
         IN << m >> \o SortedStrs(S \ {m})

\* the TrType members, by value
INCOME_TYPES == {"Mining", "Staking", "Dividend", "Interest", "Income"}

\* the tax years with capital gains data for individuals
CG_DATA_INDIVIDUAL == {2024}
Years == {2008, 2024}

BuyLeg(c, f) == Some([asset |-> ETH, quantity |-> 1500, cost |-> c, fee_value |-> f])

\* no acquisition leg, or one with a cost, a fee value or both
BuyLegs ==
    {None, BuyLeg(Some(12345), None), BuyLeg(None, Some(5)), BuyLeg(Some(12345), Some(5))}

SellLegs == {None, Some([asset |-> BTC, quantity |-> 10])}

\* the first record: with or without a key, a trade or an income, its legs
\* present or not (a trade's acquisition leg is whole when present)
Record1Set ==
    {r \in [tid : {None, << 1, 0 >>},
            t_type : {"Trade", "Staking"},
            buy : BuyLegs,
            sell : SellLegs,
            timestamp : {"2023-01-01T00:00:00 UTC"},
            tx_raw : {Some([tx_hash |-> << >>, tx_src |-> << "a" >>, tx_dest |-> << "b" >>])}] :
        r.t_type = "Trade" => r.buy \in {None, BuyLeg(Some(12345), Some(5))}}

\* the first record, for the aggregation alone: with or without a key
Record1KeySet == {r \in Record1Set : r.t_type = "Trade" /\ r.buy = None /\ r.sell # None}

\* the second record: a trade of another transaction key
Record2 ==
    [tid |-> << 2, 1 >>,
     t_type |-> "Trade",
     buy |-> Some([asset |-> BTC, quantity |-> 250, cost |-> Some(995), fee_value |-> Some(15)]),
     sell |-> Some([asset |-> ETH, quantity |-> 3000]),
     timestamp |-> "2023-02-01T00:00:00 UTC",
     tx_raw |-> Some([tx_hash |-> << "h" >>, tx_src |-> << >>, tx_dest |-> << >>])]

PartNames == {"BUY", "SELL", "FEE"}

SeqsUpTo(S, n) == UNION {[1..k -> S] : k \in 0..n}

\* the k-th audit entry of the log, of record rec and part name part
Entry(k, rec, part) ==
    [t_record |-> rec,
     tr_part |-> part,
     wallet |-> "Wallet",
     change |-> Some(IF part = "BUY" THEN 1000 * k ELSE -1000 * k),
     fee |-> IF k % 2 = 0 THEN Some(k) ELSE None,
     balance |-> Some(1000 * k + 500),
     total |-> Some(10000 * k)]

\* the logs of at most n entries: the assets in an insertion order, each with
\* its entries (any part of the first record, a BUY or a SELL of the second)
AuditLogs(n) ==
    LET orders == {<< >>, << BTC >>, << ETH >>, << BTC, ETH >>, << ETH, BTC >>}
        choice == ({1} \X PartNames) \cup ({2} \X {"BUY", "SELL"})
        before(f, i) == SumSeq([j \in 1..(i - 1) |-> Len(f[j])])
    IN UNION {
         { [i \in 1..Len(o) |->
              [asset |-> o[i],
               entries |-> [j \in 1..Len(f[i]) |->
                              Entry(before(f, i) + j, f[i][j][1], f[i][j][2])]]] :
           f \in {g \in [1..Len(o) -> SeqsUpTo(choice, n)] :
                    /\ \A i \in 1..Len(o) : g[i] # << >>
                    /\ SumSeq([i \in 1..Len(o) |-> Len(g[i])]) <= n} }
         : o \in orders }

\* the k-th tax event, of record rec (or of none)
TaxEvent(k, rec) ==
    [t_record |-> rec,
     proceeds |-> 20000 + 1005 * k,
     cost |-> 10000 + 15 * k,
     fees |-> 5 * k,
     gain |-> IF k % 2 = 1 THEN -(2505 + k) ELSE 2505 + k]

\* the tax events of at most n events over all years, each of a record of
\* choice, in a year of holding
TaxEventSets(n, choice, holding) ==
    LET ys == SortedInts(Years)
        before(f, y) == SumSeq([j \in 1..Len(ys) |-> IF ys[j] < y THEN Len(f[ys[j]]) ELSE 0])
    IN { [y \in Years |-> [j \in 1..Len(f[y]) |-> TaxEvent(before(f, y) + j, f[y][j])]] :
         f \in {g \in [Years -> SeqsUpTo(choice, n)] :
                  /\ \A y \in Years \ holding : g[y] = << >>
                  /\ SumSeq([j \in 1..Len(ys) |-> Len(g[ys[j]])]) <= n} }

\* the tax events of the records of which each has at most one, in the years
\* with capital gains data
OneEventEach ==
    {t \in LET recs == {Some(1), Some(2)}
           IN TaxEventSets(Cardinality(recs), recs, CG_DATA_INDIVIDUAL) :
        \A y \in Years : \A i \in 1..Len(t[y]) : \A j \in 1..Len(t[y]) :
            t[y][i].t_record = t[y][j].t_record => i = j}

\* ------------------------------------------------------------------------
\* main(): the Disposal Aggregator, lines 183-206
\* ------------------------------------------------------------------------
EmptyDict == << >>

ZeroPl == [proceeds |-> 0, cost |-> 0, fees |-> 0, gain |-> 0]

\* AggAdd, were the sums assigned instead of added to
AggAdd_Overwrite(pl, tr_key, te) ==
    (tr_key :> [proceeds |-> te.proceeds, cost |-> te.cost,
                fees |-> te.fees, gain |-> te.gain]) @@ pl

\* agg = tr_to_pl.setdefault(tr_key, zeros); agg[...] += te....
AggAdd(pl, tr_key, te) ==
    LET agg == IF tr_key \in DOMAIN pl THEN pl[tr_key] ELSE ZeroPl
    IN (tr_key :> [proceeds |-> agg.proceeds + te.proceeds,
                   cost |-> agg.cost + te.cost,
                   fees |-> agg.fees + te.fees,
                   gain |-> agg.gain + te.gain]) @@ pl

\* the body of the inner loop for one tax event
AggEvent(pl, recs, te) ==
    IF te.t_record = None THEN pl
    ELSE LET tr == recs[Val(te.t_record)]
         IN IF tr.tid # << >> THEN AggAdd(pl, tr.tid[1], te) ELSE pl

\* ------------------------------------------------------------------------
\* main(): the Transaction Entry Index, lines 208-216
\* ------------------------------------------------------------------------
\* IndexPut, were an entry already registered kept
IndexPut_KeepFirst(idx, key, name, e) ==
    LET parts == IF key \in DOMAIN idx THEN idx[key] ELSE EmptyDict
    IN (key :> (parts @@ (name :> e))) @@ idx

\* parts = tr_to_entries.setdefault(key, {}); parts[name] = e
IndexPut(idx, key, name, e) ==
    LET parts == IF key \in DOMAIN idx THEN idx[key] ELSE EmptyDict
    IN (key :> ((name :> e) @@ parts)) @@ idx

\* the body of the inner loop for one audit entry
IndexEntry(idx, recs, e) ==
    LET tr == recs[e.t_record]
    IN IF tr.tid # << >> THEN IndexPut(idx, tr.tid[1], e.tr_part, e) ELSE idx

\* ------------------------------------------------------------------------
\* main(): the rows, lines 241-319
\* ------------------------------------------------------------------------
Empty == << >>

\* SellCols, were the part of the entry not tested
SellCols_AnyPart(e, tr, pl) ==
    IF tr.tid # << >> /\ tr.tid[1] \in DOMAIN pl
    THEN << fmt_val(Some(pl[tr.tid[1]].proceeds)), fmt_val(Some(pl[tr.tid[1]].cost)),
            fmt_val(Some(pl[tr.tid[1]].fees)), fmt_val(Some(pl[tr.tid[1]].gain)) >>
    ELSE << Empty, Empty, Empty, Empty >>

\* lines 260-271
SellCols(e, tr, pl) ==
    IF e.tr_part = "SELL" /\ tr.tid # << >> /\ tr.tid[1] \in DOMAIN pl
    THEN << fmt_val(Some(pl[tr.tid[1]].proceeds)), fmt_val(Some(pl[tr.tid[1]].cost)),
            fmt_val(Some(pl[tr.tid[1]].fees)), fmt_val(Some(pl[tr.tid[1]].gain)) >>
    ELSE << Empty, Empty, Empty, Empty >>

\* IncomeCols, were the record type not tested
IncomeCols_AnyType(e, tr) ==
    IF e.tr_part = "BUY" /\ tr.buy # None
    THEN << fmt_val(Val(tr.buy).cost), fmt_val(Val(tr.buy).fee_value) >>
    ELSE << Empty, Empty >>

\* lines 273-279
IncomeCols(e, tr) ==
    IF e.tr_part = "BUY" /\ tr.t_type \in INCOME_TYPES /\ tr.buy # None
    THEN << fmt_val(Val(tr.buy).cost), fmt_val(Val(tr.buy).fee_value) >>
    ELSE << Empty, Empty >>

\* tr_to_entries.get(tr_key, {})
PartsOf(idx, tr_key) == IF tr_key \in DOMAIN idx THEN idx[tr_key] ELSE EmptyDict

\* CounterParts, were the second component of the tid taken for the key
CounterParts_SubId(idx, tr) == PartsOf(idx, tr.tid[2])

\* lines 288-289: parts = tr_to_entries.get(tr.tid[0], {})
CounterParts(idx, tr) == PartsOf(idx, tr.tid[1])

\* CounterLeg, were the tid of the record not tested
CounterLeg_NoKeyTest(e, tr) ==
    IF e.tr_part = "BUY"
    THEN IF tr.sell # None
         THEN << Val(tr.sell).asset, fmt_qty(Some(-(Val(tr.sell).quantity))) >>
         ELSE << Empty, Empty >>
    ELSE IF e.tr_part = "SELL"
    THEN IF tr.buy # None
         THEN << Val(tr.buy).asset, fmt_qty(Some(Val(tr.buy).quantity)) >>
         ELSE << Empty, Empty >>
    ELSE << Empty, Empty >>

\* lines 290-294 and 298-302: counter_asset, counter_change_qty
CounterLeg(e, tr) ==
    IF tr.tid = << >> THEN << Empty, Empty >>
    ELSE IF e.tr_part = "BUY"
         THEN IF tr.sell # None
              THEN << Val(tr.sell).asset, fmt_qty(Some(-(Val(tr.sell).quantity))) >>
              ELSE << Empty, Empty >>
    ELSE IF e.tr_part = "SELL"
         THEN IF tr.buy # None
              THEN << Val(tr.buy).asset, fmt_qty(Some(Val(tr.buy).quantity)) >>
              ELSE << Empty, Empty >>
    ELSE << Empty, Empty >>

\* lines 295-297 and 303-305: counter_wallet_bal_after, counter_total_bal_after
CounterBalances(e, tr, idx) ==
    IF tr.tid = << >> THEN << Empty, Empty >>
    ELSE LET parts == CounterParts(idx, tr)
         IN IF e.tr_part = "BUY"
            THEN IF "SELL" \in DOMAIN parts
                 THEN << fmt_qty(parts["SELL"].balance), fmt_qty(parts["SELL"].total) >>
                 ELSE << Empty, Empty >>
            ELSE IF e.tr_part = "SELL"
            THEN IF "BUY" \in DOMAIN parts
                 THEN << fmt_qty(parts["BUY"].balance), fmt_qty(parts["BUY"].total) >>
                 ELSE << Empty, Empty >>
            ELSE << Empty, Empty >>

\* the row of one entry: the 20 fields, named as in headers
MakeRow(asset, e, tr, pl, idx) ==
    LET sell_cols == SellCols(e, tr, pl)
        income_cols == IncomeCols(e, tr)
        leg == CounterLeg(e, tr)
        bal == CounterBalances(e, tr, idx)
    IN [asset |-> asset,
        timestamp |-> tr.timestamp,
        record_type |-> tr.t_type,
        part |-> e.tr_part,
        wallet |-> e.wallet,
        change_qty |-> fmt_qty(e.change),
        fee_qty |-> fmt_qty(e.fee),
        balance_wallet_after |-> fmt_qty(e.balance),
        total_balance_after |-> fmt_qty(e.total),
        sell_proceeds_value_ccy |-> sell_cols[1],
        sell_cost_value_ccy |-> sell_cols[2],
        sell_fees_value_ccy |-> sell_cols[3],
        sell_gain_value_ccy |-> sell_cols[4],
        income_amount_value_ccy |-> income_cols[1],
        income_fees_value_ccy |-> income_cols[2],
        counter_asset |-> leg[1],
        counter_change_qty |-> leg[2],
        counter_balance_wallet_after |-> bal[1],
        counter_total_balance_after |-> bal[2],
        tx |-> fmt_tx(tr)]

\* SortedAssets, were the assets taken in the order of the log
SortedAssets_Unsorted(log) == [i \in 1..Len(log) |-> log[i].asset]

\* sorted(audit.audit_log)
SortedAssets(log) == SortedStrs({log[i].asset : i \in 1..Len(log)})

\* the position of audit.audit_log[asset] in the log
EntriesOf(log, asset) == CHOOSE i \in 1..Len(log) : log[i].asset = asset

\* ------------------------------------------------------------------------
\* main() as a state machine
\* ------------------------------------------------------------------------
InitMain(recs, logs, events) ==
    /\ t_records \in recs
    /\ audit_log \in logs
    /\ tax_events \in events
    /\ tr_to_pl = EmptyDict
    /\ tr_to_entries = EmptyDict
    /\ data_rows = << >>
    /\ out_mode = "none"
    /\ yi = 1 /\ ti = 1 /\ ai = 1 /\ ei = 1
    /\ pc = "agg"
    /\ TableIdle
    /\ TruncIdle

\* every shape of record and of audit log; of a record at most one tax event,
\* in a year with capital gains data
Init == InitMain({<< r, Record2 >> : r \in Record1Set}, AuditLogs(MaxEntries), OneEventEach)

\* every shape of tax events; one shape of record, an audit log of one entry
InitAgg == InitMain({<< r, Record2 >> : r \in Record1KeySet}, AuditLogs(MinEntries),
                    TaxEventSets(MaxAggEvents, {None, Some(1), Some(2)}, Years))

YearAt(i) == SortedInts(DOMAIN tax_events)[i]

\* lines 185-187: a year without capital gains data is passed over
Agg_SkipYear ==
    /\ pc = "agg"
    /\ yi <= Cardinality(DOMAIN tax_events)
    /\ YearAt(yi) \notin CG_DATA_INDIVIDUAL
    /\ yi' = yi + 1
    /\ UNCHANGED << t_records, audit_log, tax_events, tr_to_pl, tr_to_entries, data_rows,
                    out_mode, ti, ai, ei, pc >>
    /\ UNCHANGED << tvars, cvars >>

\* lines 188-206: one tax event of the year at hand
Agg_Event ==
    /\ pc = "agg"
    /\ yi <= Cardinality(DOMAIN tax_events)
    /\ YearAt(yi) \in CG_DATA_INDIVIDUAL
    /\ ti <= Len(tax_events[YearAt(yi)])
    /\ tr_to_pl' = AggEvent(tr_to_pl, t_records, tax_events[YearAt(yi)][ti])
    /\ ti' = ti + 1
    /\ UNCHANGED << t_records, audit_log, tax_events, tr_to_entries, data_rows,
                    out_mode, yi, ai, ei, pc >>
    /\ UNCHANGED << tvars, cvars >>

\* line 188: the events of the year at hand are exhausted
Agg_EndYear ==
    /\ pc = "agg"
    /\ yi <= Cardinality(DOMAIN tax_events)
    /\ YearAt(yi) \in CG_DATA_INDIVIDUAL
    /\ ti > Len(tax_events[YearAt(yi)])
    /\ yi' = yi + 1
    /\ ti' = 1
    /\ UNCHANGED << t_records, audit_log, tax_events, tr_to_pl, tr_to_entries, data_rows,
                    out_mode, ai, ei, pc >>
    /\ UNCHANGED << tvars, cvars >>

\* line 185: the years are exhausted
Agg_End ==
    /\ pc = "agg"
    /\ yi > Cardinality(DOMAIN tax_events)
    /\ pc' = "index"
    /\ ai' = 1 /\ ei' = 1
    /\ UNCHANGED << t_records, audit_log, tax_events, tr_to_pl, tr_to_entries, data_rows,
                    out_mode, yi, ti >>
    /\ UNCHANGED << tvars, cvars >>

\* lines 210-216: one audit entry, the assets in the order of audit.audit_log
Idx_Entry ==
    /\ pc = "index"
    /\ ai <= Len(audit_log)
    /\ ei <= Len(audit_log[ai].entries)
    /\ tr_to_entries' = IndexEntry(tr_to_entries, t_records, audit_log[ai].entries[ei])
    /\ ei' = ei + 1
    /\ UNCHANGED << t_records, audit_log, tax_events, tr_to_pl, data_rows, out_mode,
                    yi, ti, ai, pc >>
    /\ UNCHANGED << tvars, cvars >>

\* line 211: the entries of the asset at hand are exhausted
Idx_EndAsset ==
    /\ pc = "index"
    /\ ai <= Len(audit_log)
    /\ ei > Len(audit_log[ai].entries)
    /\ ai' = ai + 1
    /\ ei' = 1
    /\ UNCHANGED << t_records, audit_log, tax_events, tr_to_pl, tr_to_entries, data_rows,
                    out_mode, yi, ti, pc >>
    /\ UNCHANGED << tvars, cvars >>

\* line 210: the assets are exhausted
Idx_End ==
    /\ pc = "index"
    /\ ai > Len(audit_log)
    /\ pc' = "rows"
    /\ ai' = 1 /\ ei' = 1
    /\ UNCHANGED << t_records, audit_log, tax_events, tr_to_pl, tr_to_entries, data_rows,
                    out_mode, yi, ti >>
    /\ UNCHANGED << tvars, cvars >>

\* the entries of the ai-th asset of sorted(audit.audit_log)
RowEntries == audit_log[EntriesOf(audit_log, SortedAssets(audit_log)[ai])].entries

\* lines 243-319: the row of one audit entry, the assets in sorted order
Row_Entry ==
    /\ pc = "rows"
    /\ ai <= Len(audit_log)
    /\ ei <= Len(RowEntries)
    /\ LET asset == SortedAssets(audit_log)[ai]
           e == RowEntries[ei]
       IN data_rows' = Append(data_rows,
                              MakeRow(asset, e, t_records[e.t_record], tr_to_pl, tr_to_entries))
    /\ ei' = ei + 1
    /\ UNCHANGED << t_records, audit_log, tax_events, tr_to_pl, tr_to_entries, out_mode,
                    yi, ti, ai, pc >>
    /\ UNCHANGED << tvars, cvars >>

\* line 243: the entries of the asset at hand are exhausted
Row_EndAsset ==
    /\ pc = "rows"
    /\ ai <= Len(audit_log)
    /\ ei > Len(RowEntries)
    /\ ai' = ai + 1
    /\ ei' = 1
    /\ UNCHANGED << t_records, audit_log, tax_events, tr_to_pl, tr_to_entries, data_rows,
                    out_mode, yi, ti, pc >>
    /\ UNCHANGED << tvars, cvars >>

\* line 242: the assets are exhausted
Row_End ==
    /\ pc = "rows"
    /\ ai > Len(audit_log)
    /\ pc' = "emit"
    /\ UNCHANGED << t_records, audit_log, tax_events, tr_to_pl, tr_to_entries, data_rows,
                    out_mode, yi, ti, ai, ei >>
    /\ UNCHANGED << tvars, cvars >>

\* lines 321-326: the rows go out as CSV or as a table
Emit ==
    /\ pc = "emit"
    /\ \E force_csv \in BOOLEAN, force_table \in BOOLEAN, isatty \in BOOLEAN :
          out_mode' = IF _should_output_csv(force_csv, force_table, isatty)
                      THEN "csv" ELSE "table"
    /\ pc' = "done"
    /\ UNCHANGED << t_records, audit_log, tax_events, tr_to_pl, tr_to_entries, data_rows,
                    yi, ti, ai, ei >>
    /\ UNCHANGED << tvars, cvars >>

Next ==
    \/ Agg_SkipYear \/ Agg_Event \/ Agg_EndYear \/ Agg_End
    \/ Idx_Entry \/ Idx_EndAsset \/ Idx_End
    \/ Row_Entry \/ Row_EndAsset \/ Row_End
    \/ Emit

\* main() runs to completion
Spec == Init /\ [][Next]_vars /\ WF_vars(Next)

SpecAgg == InitAgg /\ [][Next]_vars /\ WF_vars(Next)

\* ------------------------------------------------------------------------
\* Properties of the table renderer
\* ------------------------------------------------------------------------
AtFloor(c) == widths[c] <= Max2(Min2(FloorCap, Len(headers[c])), FloorMin)

\* C1: once the table is printed, no printed line (header, separator, data row)
\* is wider than the terminal, unless every column is at or below its floor
\* max(min(12, header length), 4).
C1_LinesFitTerminal ==
    tpc = "done" =>
        \/ \A l \in 1..Len(lines) : Len(lines[l]) <= term_cols
        \/ \A c \in 1..Len(headers) : AtFloor(c)

\* a table without rows whose header line is wider than the terminal while a
\* column is still above its floor: the header is padded, never cut
C1_Witness ==
    /\ tpc = "done"
    /\ rows = << >>
    /\ Len(lines[1]) > term_cols
    /\ \E c \in 1..Len(headers) : ~AtFloor(c)

\* C2: _truncate_cell returns the text unchanged when it fits; otherwise a
\* string of at most max_width characters: the first max_width-1 characters
\* and a one-character marker when max_width > 1, a hard cut when max_width <= 1.
C2_TruncateContract ==
    tc_pc = "returned" =>
        IF Len(tc_text) <= tc_width THEN tc_result = tc_text
        ELSE /\ Len(tc_result) <= tc_width
             /\ IF tc_width > 1
                THEN /\ Len(tc_result) = tc_width
                     /\ Prefix(tc_result, tc_width - 1) = Prefix(tc_text, tc_width - 1)
                ELSE tc_result = Prefix(tc_text, tc_width)

\* a text cut to a width above 1: the result is two characters longer than
\* the width, the marker being three characters
C2_Witness ==
    /\ tc_pc = "returned"
    /\ tc_width > 1
    /\ Len(tc_text) > tc_width
    /\ tc_result = Prefix(tc_text, tc_width - 1) \o EllipsisMarker
    /\ Len(tc_result) = tc_width + 2

\* the lowest-index column among those of maximal slack, stated on its own
LowestMaxSlack(i) ==
    /\ \A j \in 1..Len(widths) : widths[j] - min_widths[j] <= widths[i] - min_widths[i]
    /\ \A j \in 1..Len(widths) :
          (widths[j] - min_widths[j] = widths[i] - min_widths[i]) => i <= j

NoSlackLeft == \A j \in 1..Len(widths) : widths[j] <= min_widths[j]

C9_Step ==
    (tpc = "shrink" /\ tpc' = "shrink") =>
        /\ over_by > 0 /\ ~NoSlackLeft
        /\ over_by' = over_by - 1
        /\ \E i \in 1..Len(widths) :
              /\ LowestMaxSlack(i)
              /\ widths'[i] = widths[i] - 1
              /\ widths'[i] >= min_widths[i]
              /\ \A j \in 1..Len(widths) : j # i => widths'[j] = widths[j]

C9_Stop ==
    (tpc = "shrink" /\ tpc' # "shrink") =>
        /\ over_by = 0 \/ NoSlackLeft
        /\ widths' = widths

C9_Excess ==
    tpc = "shrink" => /\ over_by >= 0
                      /\ total_width(widths) = term_cols + over_by

\* the loop is never stuck: it steps or it ends
C9_Moves == tpc = "shrink" => ENABLED (T_ShrinkStep \/ T_ShrinkExit)

\* C9: the shrink loop terminates (each step lowers the excess, which is never
\* negative, and the loop is never stuck); each step takes one from the
\* lowest-index column of maximal slack and leaves the others alone; it stops
\* exactly when the excess is 0 or no column has slack; no column is taken
\* below its floor and the total width never drops below the terminal width.
C9_ShrinkLoop ==
    /\ [][C9_Step /\ C9_Stop]_vars
    /\ [](C9_Excess /\ C9_Moves)

\* a shrink that ran through a tie of slacks and ended with the excess at 0
C9_Witness ==
    /\ tpc = "render"
    /\ min_widths # << >>
    /\ over_by = 0
    /\ \A c \in 1..Len(widths) : widths[c] < ComputeWidths(headers, PrelimRows(rows))[c]


\* ------------------------------------------------------------------------
\* Properties of main(): what they are stated with
\* ------------------------------------------------------------------------
\* the audit entries, each with the asset whose list it is in and its place
\* in the iteration order of audit.audit_log
LogPlaces ==
    UNION {{<< a, j >> : j \in 1..Len(audit_log[a].entries)} : a \in 1..Len(audit_log)}

EntryAt(pl) == audit_log[pl[1]].entries[pl[2]]
RecordAt(pl) == t_records[EntryAt(pl).t_record]
HasKey(pl) == RecordAt(pl).tid # << >>
KeyAt(pl) == RecordAt(pl).tid[1]

\* pl comes before ql in the iteration order of audit.audit_log
PlaceBefore(pl, ql) == pl[1] < ql[1] \/ (pl[1] = ql[1] /\ pl[2] < ql[2])

\* The properties of the rows are stated of the state in which the loop over
\* the entries has ended and data_rows holds every emitted row (pc = "emit").

\* the places whose entries the index loop has handled
IndexedPlaces ==
    IF pc = "agg" THEN {}
    ELSE IF pc = "index" THEN {pl \in LogPlaces : PlaceBefore(pl, << ai, ei >>)}
    ELSE LogPlaces

\* the place a row was built from: every entry of the log has a wallet balance
\* of its own
PlaceOfRow(row) ==
    CHOOSE pl \in LogPlaces :
        /\ audit_log[pl[1]].asset = row.asset
        /\ fmt_qty(EntryAt(pl).balance) = row.balance_wallet_after

RowPlaces == {PlaceOfRow(data_rows[i]) : i \in 1..Len(data_rows)}
RowOf(pl) == data_rows[CHOOSE i \in 1..Len(data_rows) : PlaceOfRow(data_rows[i]) = pl]

Opposite(part) == IF part = "BUY" THEN "SELL" ELSE "BUY"

\* the entries of the log with the key and the part name at hand
LegPlaces(key, part) ==
    {pl \in LogPlaces : HasKey(pl) /\ KeyAt(pl) = key /\ EntryAt(pl).tr_part = part}

\* the last of them in the iteration order of audit.audit_log
LastLeg(key, part) ==
    CHOOSE pl \in LegPlaces(key, part) :
        \A ql \in LegPlaces(key, part) : ql = pl \/ PlaceBefore(ql, pl)

CounterFields(row) ==
    << row.counter_asset, row.counter_change_qty,
       row.counter_balance_wallet_after, row.counter_total_balance_after >>

\* the opposite leg exists in the index, under the key of the entry
OppositeIndexed(pl) ==
    /\ EntryAt(pl).tr_part \in {"BUY", "SELL"}
    /\ HasKey(pl)
    /\ KeyAt(pl) \in DOMAIN tr_to_entries
    /\ Opposite(EntryAt(pl).tr_part) \in DOMAIN tr_to_entries[KeyAt(pl)]

\* the transaction record carries the opposite leg
OppositeLeg(pl) ==
    IF EntryAt(pl).tr_part = "BUY" THEN RecordAt(pl).sell
    ELSE IF EntryAt(pl).tr_part = "SELL" THEN RecordAt(pl).buy
    ELSE None

\* ------------------------------------------------------------------------
\* C3
\* ------------------------------------------------------------------------
\* C3 as stated: the four counter fields of a row are populated if and only if
\* the entry is a BUY or a SELL and the opposite leg exists in the index for
\* the entry's transaction key; for a FEE entry all four are empty.
C3_CounterIffIndexed ==
    pc = "emit" => \A pl \in RowPlaces :
        /\ OppositeIndexed(pl) => \A i \in 1..4 : CounterFields(RowOf(pl))[i] # Empty
        /\ ~OppositeIndexed(pl) => \A i \in 1..4 : CounterFields(RowOf(pl))[i] = Empty

\* C3 as amended: counter_asset and counter_change_qty are populated if and
\* only if the entry is a BUY or a SELL of a transaction with a key whose
\* record carries the opposite leg; the two counter balances are populated if
\* and only if the entry is a BUY or a SELL and the opposite leg's entry exists
\* in the index for the entry's key; for a FEE entry all four are empty.
C3_CounterPerSource ==
    pc = "emit" => \A pl \in RowPlaces :
        LET row == RowOf(pl)
            leg == HasKey(pl) /\ OppositeLeg(pl) # None
        IN /\ (row.counter_asset # Empty) <=> leg
           /\ (row.counter_change_qty # Empty) <=> leg
           /\ (row.counter_balance_wallet_after # Empty) <=> OppositeIndexed(pl)
           /\ (row.counter_total_balance_after # Empty) <=> OppositeIndexed(pl)
           /\ EntryAt(pl).tr_part = "FEE" =>
                 \A i \in 1..4 : CounterFields(row)[i] = Empty

\* a BUY row with all four counter fields, beside the SELL row of the same key
\* with its counter balances and, its record having no acquisition leg, without
\* counter asset
C3_Witness ==
    /\ pc = "emit"
    /\ \E pl \in RowPlaces, ql \in RowPlaces :
          /\ EntryAt(pl).tr_part = "BUY" /\ EntryAt(ql).tr_part = "SELL"
          /\ HasKey(pl) /\ HasKey(ql) /\ KeyAt(pl) = KeyAt(ql)
          /\ \A i \in 1..4 : CounterFields(RowOf(pl))[i] # Empty
          /\ RowOf(ql).counter_asset = Empty
          /\ RowOf(ql).counter_balance_wallet_after # Empty

\* ------------------------------------------------------------------------
\* C4
\* ------------------------------------------------------------------------
\* the counter fields a BUY or SELL row is to carry, given that its record
\* carries the opposite leg
C4_Expected(pl, row) ==
    LET leg == Val(OppositeLeg(pl))
        opp == Opposite(EntryAt(pl).tr_part)
        neg == EntryAt(pl).tr_part = "BUY" /\ leg.quantity > 0
    IN /\ row.counter_asset = leg.asset
       /\ row.counter_change_qty =
             (IF neg THEN << "-" >> ELSE << >>) \o fmt_qty(Some(leg.quantity))
       /\ IF HasKey(pl) /\ LegPlaces(KeyAt(pl), opp) # {}
          THEN /\ row.counter_balance_wallet_after =
                     fmt_qty(EntryAt(LastLeg(KeyAt(pl), opp)).balance)
               /\ row.counter_total_balance_after =
                     fmt_qty(EntryAt(LastLeg(KeyAt(pl), opp)).total)
          ELSE /\ row.counter_balance_wallet_after = Empty
               /\ row.counter_total_balance_after = Empty

\* the counter balances of a row are those of an entry of the row's own key
C4_OwnKey(pl, row) ==
    row.counter_balance_wallet_after # Empty =>
        \E ql \in LogPlaces :
            /\ HasKey(pl) /\ HasKey(ql) /\ KeyAt(ql) = KeyAt(pl)
            /\ row.counter_balance_wallet_after = fmt_qty(EntryAt(ql).balance)
            /\ row.counter_total_balance_after = fmt_qty(EntryAt(ql).total)

\* C4 as stated: every BUY row whose transaction has a disposal leg carries
\* that leg's asset, its negated quantity and the balances of the SELL entry
\* registered under the same key; every SELL row whose transaction has an
\* acquisition leg carries that leg's asset, its quantity (not negated) and the
\* balances of the BUY entry of the same key; never those of another key.
C4_CounterValues ==
    pc = "emit" => \A pl \in RowPlaces :
        /\ (EntryAt(pl).tr_part \in {"BUY", "SELL"} /\ OppositeLeg(pl) # None)
              => C4_Expected(pl, RowOf(pl))
        /\ C4_OwnKey(pl, RowOf(pl))

\* C4 as amended: the same, for the rows whose transaction has a key; the
\* counter balances are those of the entry registered in the index for the
\* opposite part under the same key when there is one, and empty otherwise;
\* the row of a transaction without a key has all four counter fields empty.
C4_CounterValuesKeyed ==
    pc = "emit" => \A pl \in RowPlaces :
        /\ (EntryAt(pl).tr_part \in {"BUY", "SELL"} /\ HasKey(pl) /\ OppositeLeg(pl) # None)
              => C4_Expected(pl, RowOf(pl))
        /\ ~HasKey(pl) => \A i \in 1..4 : CounterFields(RowOf(pl))[i] = Empty
        /\ C4_OwnKey(pl, RowOf(pl))

\* a BUY row and a SELL row of one trade, each with the other's balances, with
\* the log holding entries of two keys
C4_Witness ==
    /\ pc = "emit"
    /\ \E pl \in RowPlaces, ql \in RowPlaces :
          /\ EntryAt(pl).tr_part = "BUY" /\ EntryAt(ql).tr_part = "SELL"
          /\ HasKey(pl) /\ HasKey(ql) /\ KeyAt(pl) # KeyAt(ql)
          /\ RowOf(pl).counter_change_qty = << "-", "3" >>
          /\ RowOf(ql).counter_change_qty = << "1", ".", "5" >>
          /\ RowOf(ql).counter_balance_wallet_after = Empty

\* ------------------------------------------------------------------------
\* C5
\* ------------------------------------------------------------------------
IncomeFields(row) == << row.income_amount_value_ccy, row.income_fees_value_ccy >>

IsIncomeBuy(pl) ==
    /\ EntryAt(pl).tr_part = "BUY"
    /\ RecordAt(pl).t_type \in {"Mining", "Staking", "Dividend", "Interest", "Income"}
    /\ RecordAt(pl).buy # None

\* C5 as stated: for a BUY entry of an income type whose transaction has an
\* acquisition leg with cost data both income columns are non-empty; for every
\* other entry both are empty.
C5_IncomeBoth ==
    pc = "emit" => \A pl \in RowPlaces :
        IF IsIncomeBuy(pl) /\ Val(RecordAt(pl).buy).cost # None
        THEN \A i \in 1..2 : IncomeFields(RowOf(pl))[i] # Empty
        ELSE \A i \in 1..2 : IncomeFields(RowOf(pl))[i] = Empty

\* C5 as amended: for a BUY entry of an income type whose transaction has an
\* acquisition leg, income_amount_value_ccy is non-empty if and only if the leg
\* has a cost and income_fees_value_ccy is non-empty if and only if the leg has
\* a fee value; for every other entry both are empty.
C5_IncomeEach ==
    pc = "emit" => \A pl \in RowPlaces :
        IF IsIncomeBuy(pl)
        THEN /\ (RowOf(pl).income_amount_value_ccy # Empty)
                    <=> (Val(RecordAt(pl).buy).cost # None)
             /\ (RowOf(pl).income_fees_value_ccy # Empty)
                    <=> (Val(RecordAt(pl).buy).fee_value # None)
        ELSE \A i \in 1..2 : IncomeFields(RowOf(pl))[i] = Empty

\* an income row with both amounts, beside a row of a trade with an
\* acquisition leg
C5_Witness ==
    /\ pc = "emit"
    /\ \E pl \in RowPlaces :
          /\ IsIncomeBuy(pl)
          /\ IncomeFields(RowOf(pl)) = << << "1", "2", ".", "3", "4" >>, << "0", ".", "0", "0" >> >>
    /\ \E pl \in RowPlaces :
          /\ EntryAt(pl).tr_part = "BUY" /\ RecordAt(pl).t_type = "Trade"
          /\ RecordAt(pl).buy # None

\* ------------------------------------------------------------------------
\* C6
\* ------------------------------------------------------------------------
SellFields(row) ==
    << row.sell_proceeds_value_ccy, row.sell_cost_value_ccy,
       row.sell_fees_value_ccy, row.sell_gain_value_ccy >>

\* C6: for a SELL entry for whose transaction key an aggregate exists the four
\* disposal columns are non-empty and carry the aggregate's sums; for every
\* other entry (a BUY or a FEE, no key, no aggregate) all four are empty.
C6_DisposalColumns ==
    pc = "emit" => \A pl \in RowPlaces :
        IF EntryAt(pl).tr_part = "SELL" /\ HasKey(pl) /\ KeyAt(pl) \in DOMAIN tr_to_pl
        THEN /\ \A i \in 1..4 : SellFields(RowOf(pl))[i] # Empty
             /\ SellFields(RowOf(pl)) =
                   << fmt_val(Some(tr_to_pl[KeyAt(pl)].proceeds)),
                      fmt_val(Some(tr_to_pl[KeyAt(pl)].cost)),
                      fmt_val(Some(tr_to_pl[KeyAt(pl)].fees)),
                      fmt_val(Some(tr_to_pl[KeyAt(pl)].gain)) >>
        ELSE \A i \in 1..4 : SellFields(RowOf(pl))[i] = Empty

\* a SELL row with its disposal columns, beside a BUY row of the same key
C6_Witness ==
    /\ pc = "emit"
    /\ \E pl \in RowPlaces, ql \in RowPlaces :
          /\ EntryAt(pl).tr_part = "SELL" /\ EntryAt(ql).tr_part = "BUY"
          /\ HasKey(pl) /\ HasKey(ql) /\ KeyAt(pl) = KeyAt(ql)
          /\ SellFields(RowOf(pl)) =
                << << "2", "1", ".", "0", "0" >>, << "1", "0", ".", "0", "2" >>,
                   << "0", ".", "0", "0" >>, << "-", "2", ".", "5", "1" >> >>

\* ------------------------------------------------------------------------
\* C7
\* ------------------------------------------------------------------------
\* the tax events the aggregation loop has handled, as << year, place >>
HandledEvents ==
    LET ys == SortedInts(DOMAIN tax_events)
        yidx(y) == CHOOSE i \in 1..Len(ys) : ys[i] = y
    IN {ev \in UNION {{<< y, j >> : j \in 1..Len(tax_events[y])} : y \in DOMAIN tax_events} :
          \/ pc # "agg"
          \/ yidx(ev[1]) < yi
          \/ (yidx(ev[1]) = yi /\ ev[2] < ti)}

EventAt(ev) == tax_events[ev[1]][ev[2]]

\* the handled events that count for key: in a year with capital gains data,
\* with a transaction record, whose key is key
CountedEvents(key) ==
    {ev \in HandledEvents :
        /\ ev[1] \in CG_DATA_INDIVIDUAL
        /\ EventAt(ev).t_record # None
        /\ t_records[Val(EventAt(ev).t_record)].tid # << >>
        /\ t_records[Val(EventAt(ev).t_record)].tid[1] = key}

RECURSIVE SumOver(_, _)
\* the sum of field f over the events of E, one by one
SumOver(E, f) ==
    IF E = {} THEN 0
    ELSE LET ev == CHOOSE x \in E : TRUE
         IN EventAt(ev)[f] + SumOver(E \ {ev}, f)

Keys == {t_records[i].tid[1] : i \in {j \in 1..Len(t_records) : t_records[j].tid # << >>}}

\* C7: whatever events the aggregation loop has handled (to all of them, when
\* the loop has ended), a key is in the aggregate
\* map if and only if some handled event (recognized year, record, key) has it,
\* and each of its four sums is the sum of that field over those events.
C7_AggregateSums ==
    pc \in {"agg", "index"} =>
    /\ DOMAIN tr_to_pl = {k \in Keys : CountedEvents(k) # {}}
    /\ \A k \in DOMAIN tr_to_pl :
          \A f \in {"proceeds", "cost", "fees", "gain"} :
              tr_to_pl[k][f] = SumOver(CountedEvents(k), f)

\* two events of one key summed, beside an event of that key in a year
\* without capital gains data
C7_Witness ==
    /\ pc = "index"
    /\ \E k \in DOMAIN tr_to_pl :
          /\ Cardinality(CountedEvents(k)) = 2
          /\ \E ev \in HandledEvents :
                /\ ev[1] \notin CG_DATA_INDIVIDUAL
                /\ EventAt(ev).t_record # None
                /\ t_records[Val(EventAt(ev).t_record)].tid = << k, 0 >>

\* ------------------------------------------------------------------------
\* C8
\* ------------------------------------------------------------------------
\* the base fields of the row of an entry
BaseOf(pl) ==
    << audit_log[pl[1]].asset, RecordAt(pl).timestamp, RecordAt(pl).t_type,
       EntryAt(pl).tr_part, EntryAt(pl).wallet, fmt_qty(EntryAt(pl).change),
       fmt_qty(EntryAt(pl).fee), fmt_qty(EntryAt(pl).balance), fmt_qty(EntryAt(pl).total) >>

BaseFields(row) ==
    << row.asset, row.timestamp, row.record_type, row.part, row.wallet, row.change_qty,
       row.fee_qty, row.balance_wallet_after, row.total_balance_after >>

\* pl comes before ql in the order of the rows: by asset, then by place
RowBefore(pl, ql) ==
    \/ StrLess(audit_log[pl[1]].asset, audit_log[ql[1]].asset)
    \/ (pl[1] = ql[1] /\ pl[2] < ql[2])

\* C8: the rows are the audit entries, one row each, by asset in lexical order
\* and within an asset in the entries' order; when the loop is over there are
\* as many rows as entries.
C8_RowPerEntry ==
    pc = "emit" =>
        /\ Len(data_rows) = Cardinality(LogPlaces)
        /\ \A i \in 1..Len(data_rows) :
              \E pl \in LogPlaces :
                  /\ BaseFields(data_rows[i]) = BaseOf(pl)
                  /\ Cardinality({ql \in LogPlaces : RowBefore(ql, pl)}) = i - 1

\* two rows of two assets that the log holds in the other order, one of a
\* record without a key
C8_Witness ==
    /\ pc = "emit"
    /\ Len(data_rows) = 2
    /\ Len(audit_log) = 2
    /\ StrLess(audit_log[2].asset, audit_log[1].asset)
    /\ \E pl \in LogPlaces : ~HasKey(pl)

\* ------------------------------------------------------------------------
\* C10
\* ------------------------------------------------------------------------
\* the handled entries of each key and part name
HandledLegs ==
    [k \in Keys |->
        [part \in PartNames |->
            {pl \in IndexedPlaces :
                HasKey(pl) /\ KeyAt(pl) = k /\ EntryAt(pl).tr_part = part}]]

\* C10: whatever prefix of the audit stream the index loop has handled (to the
\* whole of it, when the loop ends), the index holds for a key and a part name
\* the last handled entry of that key and part, and nothing for a key or part
\* no handled entry has; an entry without a key is not registered.
C10_IndexLastWins ==
    pc = "index" =>
        LET legs == HandledLegs
        IN /\ DOMAIN tr_to_entries =
                 {k \in Keys : \E part \in PartNames : legs[k][part] # {}}
           /\ \A k \in DOMAIN tr_to_entries :
                 /\ DOMAIN tr_to_entries[k] = {part \in PartNames : legs[k][part] # {}}
                 /\ \A part \in DOMAIN tr_to_entries[k] :
                       \E pl \in legs[k][part] :
                           /\ tr_to_entries[k][part] = EntryAt(pl)
                           /\ \A ql \in legs[k][part] : ql = pl \/ PlaceBefore(ql, pl)

\* two entries of one key and part, in two assets, the later one registered
C10_Witness ==
    /\ pc = "index"
    /\ ai > Len(audit_log)
    /\ \E k \in DOMAIN tr_to_entries, part \in PartNames :
          /\ Cardinality(LegPlaces(k, part)) = 2
          /\ \E pl \in LegPlaces(k, part), ql \in LegPlaces(k, part) : pl[1] # ql[1]

=============================================================================
